---- MODULE Spec2Model ----
(***************************************************************************)
(* A model of the Archive Release Resolution Engine of the NAIF PDS4       *)
(* Bundler: the filename pattern matcher (match_patterns), the release     *)
(* tracker (Setup.set_release), the kernel resolver (Setup.load_kernels)   *)
(* and the temporal consistency checker (Setup.check_times).               *)
(*                                                                         *)
(* Every component is a handler applied once to inputs drawn from bounded  *)
(* sets.  Each has its own specification (SpecMatch, SpecRelease,          *)
(* SpecKernels, SpecTimes); Spec is their union.  The variables of the     *)
(* components that a specification does not exercise stay at their idle    *)
(* values.                                                                 *)
(*                                                                         *)
(* Strings are sequences of one-character strings, so that positions,      *)
(* lengths and the lexicographic order of file names are computed and not  *)
(* assumed.                                                                *)
(***************************************************************************)
EXTENDS Integers, Sequences, FiniteSets, TLC

VARIABLES
    \* ---- PatternMatcher: match_patterns(name, name_w_pattern, patterns)
    name,            \* the concrete file name
    name_w_pattern,  \* the template: literal characters and placeholders
    patterns,        \* the declared fields, in their order of declaration
    substituted,     \* how name was built from the template, when it was
    values,          \* the outcome of the match
    \* ---- ReleaseTracker: Setup.set_release
    final_area,      \* names matched by the bundle label glob (final area)
    working_area,    \* names matched by the kernel list glob (working area)
    release,         \* self.release
    current_release, \* self.current_release
    increment,       \* self.increment
    globbed,         \* the areas set_release listed, in order
    release_pc,      \* "start" before set_release, "done" after it
    \* ---- TemporalConsistencyChecker: Setup.check_times
    mission_start,   \* self.mission_start
    mission_finish,  \* self.mission_finish
    increment_start, \* self.increment_start
    increment_finish,\* self.increment_finish
    times_checked,   \* the outcome of check_times
    \* ---- KernelTypeResolver: Setup.load_kernels
    kernels_to_load,   \* self.kernels_to_load, flattened: (type, pattern)
    existing_paths,    \* the patterns p for which os.path.exists(p)
    kernels_directory, \* the listing of each subdirectory, when it exists
    kernel_pool,       \* what spiceypy.furnsh has loaded, in order
    setup_kernels,     \* self.fks, self.sclks, self.lsk once they are set
    kernels_loaded,    \* the outcome of load_kernels
    \* ---- Configuration: Setup.__init__ and Setup.check_configuration
    release_date,        \* self.release_date
    date_format,         \* self.date_format ("" while it is no attribute)
    end_of_line,         \* self.end_of_line
    coverage_times,      \* the text of self.mission_start, mission_finish,
                         \* increment_start, increment_finish
    directories,         \* self.working_directory, staging_directory,
                         \* final_directory, kernels_directory
    filesystem,          \* the directories that exist
    cwd,                 \* the current directory of the process
    templates_directory, \* self.templates_directory
    pds_version,         \* self.pds_version
    information_model,   \* self.information_model
    shipped_templates,   \* the listing of {root_dir}templates/*/
    mk,                  \* self.mk
    config_pc,           \* "new", "constructed", "checked" or "failed"
    config_error         \* the message of the error raised, if any

\* ------------------------------------------------------------------------
\* Helpers on sequences
\* ------------------------------------------------------------------------

\* Sequences over S of length lo..hi.
SeqsBetween(S, lo, hi) == UNION { [1..n -> S] : n \in lo..hi }

\* The concatenation of a sequence of sequences.
RECURSIVE Flatten(_)
Flatten(chunks) ==
    IF chunks = << >> THEN << >> ELSE Head(chunks) \o Flatten(Tail(chunks))

\* The sum of the first k entries of a sequence of numbers.
RECURSIVE SumFirst(_, _)
SumFirst(f, k) ==
    IF k = 0 THEN 0 ELSE SumFirst(f, k - 1) + f[k]

\* ------------------------------------------------------------------------
\* PatternMatcher (spec section 4.1; the code of match_patterns is not among
\* the source files, its test is)
\* ------------------------------------------------------------------------

\* The longest template, in elements (literal characters and placeholders).
MaxTemplateLen == 3
\* The largest number of declared fields.
MaxFields == 2
\* The largest declared field length.
MaxFieldLen == 2

\* The characters of file names, and those a template holds as literals.
Chars == {"i", "2"}
Literals == {"i"}
\* Placeholder names of templates: two declared ones and a misspelled YEAR.
Placeholders == {"YEAR", "VERSION", "YER"}
\* Names of declared fields: the two, and a misspelled YEAR.
FieldNames == {"YEAR", "VERSION", "YAR"}

Lit(c) == [kind |-> "lit", v |-> c]
Ph(n) == [kind |-> "ph", v |-> n]

\* Template: an ordered string of literal characters and $NAME placeholders.
Templates ==
    { t \in SeqsBetween({Lit(c) : c \in Literals} \cup {Ph(n) : n \in Placeholders},
                        1, MaxTemplateLen) :
        \A i, j \in 1..Len(t) : (i # j /\ t[i].kind = "ph") => t[i] # t[j] }

\* Field: {name, length}; the declarations are an ordered list of fields
\* with distinct names.
FieldLists ==
    { f \in SeqsBetween([name : FieldNames, length : 1..MaxFieldLen], 0, MaxFields) :
        \A i, j \in 1..Len(f) : i # j => f[i].name # f[j].name }

\* File names that are not built from a template.
Names == SeqsBetween(Chars, 0, MaxTemplateLen)

Declared(fields, n) == \E k \in 1..Len(fields) : fields[k].name = n

\* The declared length of field n (no characters when n is not declared;
\* match never asks for it then).
FieldLength(fields, n) ==
    IF Declared(fields, n)
    THEN fields[CHOOSE k \in 1..Len(fields) : fields[k].name = n].length
    ELSE 0

\* A faulty variant: only the first element of the template is looked up.
UndefinedField_HeadOnly(template, fields) ==
    template[1].kind = "ph" /\ ~Declared(fields, template[1].v)

\* Failure (1): some placeholder of the template has no declared field.
UndefinedField(template, fields) ==
    \E i \in 1..Len(template) :
        template[i].kind = "ph" /\ ~Declared(fields, template[i].v)

\* A faulty variant: the lengths are taken in the order of declaration, the
\* first declared length for every placeholder.
ElementLength_DeclarationOrder(fields, e) ==
    IF e.kind = "lit" THEN 1 ELSE fields[1].length

\* The number of file name characters a template element stands for.
ElementLength(fields, e) ==
    IF e.kind = "lit" THEN 1 ELSE FieldLength(fields, e.v)

\* The template's literal-plus-field length.
RECURSIVE TemplateLength(_, _)
TemplateLength(template, fields) ==
    IF template = << >> THEN 0
    ELSE ElementLength(fields, Head(template))
         + TemplateLength(Tail(template), fields)

MatchError(kind) == [status |-> kind, values |-> << >>]

\* The walk, left to right: a literal is compared with the character at the
\* current offset, a placeholder consumes exactly its declared length and is
\* bound under its name.  No backtracking.
RECURSIVE Walk(_, _, _, _)
Walk(filename, template, fields, bound) ==
    IF template = << >> THEN [status |-> "ok", values |-> bound]
    ELSE LET e == Head(template)
             n == ElementLength(fields, e)
             rest == SubSeq(filename, n + 1, Len(filename))
         IN  IF e.kind = "lit"
             THEN IF Head(filename) = e.v
                  THEN Walk(rest, Tail(template), fields, bound)
                  ELSE MatchError("LiteralMismatchError")
             ELSE Walk(rest, Tail(template), fields,
                       Append(bound, [name |-> e.v,
                                      value |-> SubSeq(filename, 1, n)]))

\* A faulty variant: a wrong length is reported as a literal mismatch.
match_OneErrorKind(filename, template, fields) ==
    IF UndefinedField(template, fields)
    THEN MatchError("UndefinedFieldError")
    ELSE IF TemplateLength(template, fields) # Len(filename)
    THEN MatchError("LiteralMismatchError")
    ELSE Walk(filename, template, fields, << >>)

\* match(filename, template, fields) -> MatchResult, or one of three errors.
match(filename, template, fields) ==
    IF UndefinedField(template, fields)
    THEN MatchError("UndefinedFieldError")
    ELSE IF TemplateLength(template, fields) # Len(filename)
    THEN MatchError("LengthMismatchError")
    ELSE Walk(filename, template, fields, << >>)

\* The ways of building a file name from a template: a literal is copied, a
\* placeholder is replaced by any string of its declared length.  One chunk
\* per template element.
RECURSIVE Substitutions(_, _)
Substitutions(template, fields) ==
    IF template = << >> THEN { << >> }
    ELSE LET e == Head(template)
             here == IF e.kind = "lit" THEN { << e.v >> }
                     ELSE SeqsBetween(Chars, FieldLength(fields, e.v),
                                      FieldLength(fields, e.v))
         IN  { << c >> \o r : c \in here,
                              r \in Substitutions(Tail(template), fields) }

\* ------------------------------------------------------------------------
\* ReleaseTracker: Setup.set_release (src/npb/classes/setup.py)
\* ------------------------------------------------------------------------

\* The most files of one area.
MaxFiles == 2
\* Release numbers are written into file names with 1..MaxWidth digits.
MaxWidth == 3

\* The code points of the characters of the file names.
CharCode ==
    ("." :> 46 @@
     "0" :> 48 @@
     "1" :> 49 @@
     "2" :> 50 @@
     "3" :> 51 @@
     "4" :> 52 @@
     "5" :> 53 @@
     "6" :> 54 @@
     "7" :> 55 @@
     "8" :> 56 @@
     "9" :> 57 @@
     "_" :> 95 @@
     "a" :> 97 @@
     "b" :> 98 @@
     "c" :> 99 @@
     "d" :> 100 @@
     "e" :> 101 @@
     "g" :> 103 @@
     "h" :> 104 @@
     "i" :> 105 @@
     "k" :> 107 @@
     "l" :> 108 @@
     "m" :> 109 @@
     "n" :> 110 @@
     "p" :> 112 @@
     "r" :> 114 @@
     "s" :> 115 @@
     "t" :> 116 @@
     "u" :> 117 @@
     "v" :> 118 @@
     "x" :> 120)

Digits == << "0", "1", "2", "3", "4", "5", "6", "7", "8", "9" >>
IsDigit(c) == \E d \in 1..10 : Digits[d] = c
DigitValue(c) == (CHOOSE d \in 1..10 : Digits[d] = c) - 1

\* Python's order of strings, from position k on: by code point at the first
\* difference, a proper prefix first.
RECURSIVE StrLessFrom(_, _, _)
StrLessFrom(s, t, k) ==
    IF k > Len(t) THEN FALSE
    ELSE IF k > Len(s) THEN TRUE
    ELSE IF s[k] = t[k] THEN StrLessFrom(s, t, k + 1)
    ELSE CharCode[s[k]] < CharCode[t[k]]

StrLess(s, t) == StrLessFrom(s, t, 1)

\* list.sort() of the (distinct) strings of S.
RECURSIVE sort(_)
sort(S) ==
    IF S = {} THEN << >>
    ELSE LET lo == CHOOSE x \in S : \A y \in S \ {x} : StrLess(x, y)
         IN  << lo >> \o sort(S \ {lo})

IsPrefix(p, s) == Len(p) <= Len(s) /\ SubSeq(s, 1, Len(p)) = p
IsSuffix(p, s) ==
    Len(p) <= Len(s) /\ SubSeq(s, Len(s) - Len(p) + 1, Len(s)) = p

\* The positions at which sep occurs in s.
Occurrences(s, sep) ==
    { k \in 1..(Len(s) - Len(sep) + 1) : SubSeq(s, k, k + Len(sep) - 1) = sep }

\* s.split(sep)[-1]
SplitLast(s, sep) ==
    IF Occurrences(s, sep) = {} THEN s
    ELSE LET k == CHOOSE x \in Occurrences(s, sep) :
                      \A y \in Occurrences(s, sep) : y <= x
         IN  SubSeq(s, k + Len(sep), Len(s))

\* s.split(sep)[0]
SplitFirst(s, sep) ==
    IF Occurrences(s, sep) = {} THEN s
    ELSE LET k == CHOOSE x \in Occurrences(s, sep) :
                      \A y \in Occurrences(s, sep) : x <= y
         IN  SubSeq(s, 1, k - 1)

\* int(s) raises ValueError unless s is a decimal numeral (of the characters
\* of the file names here, only digits make one).
IsNumeral(s) == s # << >> /\ \A i \in 1..Len(s) : IsDigit(s[i])

\* int(s) for a numeral s.
RECURSIVE int(_)
int(s) ==
    IF s = << >> THEN 0
    ELSE 10 * int(SubSeq(s, 1, Len(s) - 1)) + DigitValue(s[Len(s)])

\* str(n)
RECURSIVE Decimal(_)
Decimal(n) ==
    IF n < 10 THEN << Digits[n + 1] >>
    ELSE Decimal(n \div 10) \o << Digits[(n % 10) + 1] >>

\* f'{n:0w}': at least w digits, zero-padded on the left.
RECURSIVE ZeroPad(_, _)
ZeroPad(n, w) ==
    IF Len(Decimal(n)) >= w THEN Decimal(n)
    ELSE << "0" >> \o ZeroPad(n, w - 1)

\* f'{n:03}'
Format03(n) == ZeroPad(n, 3)

\* bundle_{mission_accronym}_spice_v  and  {mission_accronym}_release_
BundleLabelPrefix == << "b", "u", "n", "d", "l", "e", "_", "i", "n", "s", "i", "g", "h", "t", "_", "s", "p", "i", "c", "e", "_", "v" >>
KernelListPrefix == << "i", "n", "s", "i", "g", "h", "t", "_", "r", "e", "l", "e", "a", "s", "e", "_" >>
KernelListSuffix == << ".", "k", "e", "r", "n", "e", "l", "_", "l", "i", "s", "t" >>
SpiceVMarker == << "_", "s", "p", "i", "c", "e", "_", "v" >>
ReleaseMarker == << "_", "r", "e", "l", "e", "a", "s", "e", "_" >>
Dot == << "." >>

\* glob.glob(prefix + '*' + suffix) over the names of a directory.
glob(area, prefix, suffix) ==
    { f \in area : /\ Len(f) >= Len(prefix) + Len(suffix)
                   /\ IsPrefix(prefix, f)
                   /\ IsSuffix(suffix, f) }

\* The body of each try block: sort the names, take the last one, cut its
\* number out and parse it.  found = FALSE when it raises (IndexError on an
\* empty list, ValueError from int).
LatestRelease(releases, marker) ==
    IF releases = {} THEN [found |-> FALSE, number |-> 0]
    ELSE LET sorted == sort(releases)
             text == SplitFirst(SplitLast(sorted[Len(sorted)], marker), Dot)
         IN  IF IsNumeral(text)
             THEN [found |-> TRUE, number |-> int(text)]
             ELSE [found |-> FALSE, number |-> 0]

\* A faulty variant: the release is not advanced.
Increment_SameRelease(number, areas) ==
    [release |-> Format03(number),
     current_release |-> Format03(number),
     increment |-> TRUE,
     globbed |-> areas]

\* current_release = f'{current_release:03}';
\* release = f'{int(current_release) + 1:03}'; increment = True
Increment(number, areas) ==
    [release |-> Format03(int(Format03(number)) + 1),
     current_release |-> Format03(number),
     increment |-> TRUE,
     globbed |-> areas]

\* A faulty variant: the first release keeps a previous release "000".
FirstRelease_ZeroPrevious ==
    [release |-> << "0", "0", "1" >>,
     current_release |-> << "0", "0", "0" >>,
     increment |-> FALSE,
     globbed |-> << "final", "working" >>]

\* release = '001'; current_release = ''; increment = False
FirstRelease ==
    [release |-> << "0", "0", "1" >>,
     current_release |-> << >>,
     increment |-> FALSE,
     globbed |-> << "final", "working" >>]

\* The nested try blocks of set_release.  globbed records which areas were
\* listed (it is not a field of the setup object).
set_release(final, working) ==
    LET label == LatestRelease(glob(final, BundleLabelPrefix, << >>),
                               SpiceVMarker)
        list == LatestRelease(glob(working, KernelListPrefix, KernelListSuffix),
                              ReleaseMarker)
    IN  IF label.found THEN Increment(label.number, << "final" >>)
        ELSE IF list.found
        THEN Increment(list.number, << "final", "working" >>)
        ELSE FirstRelease

\* Sample file names.  Release numbers with a carry (9, 10) and the largest
\* three-digit one, written with every width; a name the glob matches whose
\* version is not a number; and a name the glob does not match.
ReleaseNumbers == {9, 10, 999}
Numerals == { ZeroPad(n, w) : n \in ReleaseNumbers, w \in 1..MaxWidth }
XmlSuffix == << ".", "x", "m", "l" >>
FinalNames ==
    { BundleLabelPrefix \o v \o XmlSuffix : v \in Numerals \cup { << "b" >> } }
    \cup { << "s", "p", "i", "c", "e", "_", "k", "e", "r", "n", "e", "l", "s" >> }
WorkingNames ==
    { KernelListPrefix \o v \o KernelListSuffix : v \in Numerals \cup { << "b" >> } }
    \cup { KernelListPrefix \o << "1", "0" >> \o << ".", "p", "l", "a", "n" >> }

Areas(pool) == { a \in SUBSET pool : Cardinality(a) <= MaxFiles }

\* ------------------------------------------------------------------------
\* TemporalConsistencyChecker: Setup.check_times (src/npb/classes/setup.py)
\* ------------------------------------------------------------------------

\* Times are 0..MaxTime.
MaxTime == 3

\* A time parameter of the setup object: not an attribute at all (absent
\* from the configuration), an empty value, or a UTC time.
Absent == [kind |-> "absent", t |-> 0]
Empty == [kind |-> "empty", t |-> 0]
Utc(t) == [kind |-> "time", t |-> t]
TimeParameters == { Absent, Empty } \cup { Utc(t) : t \in 0..MaxTime }

\* spiceypy.utc2et raises unless it is given a time (reading an attribute
\* that is absent raises as well).
Loadable(p) == p.kind = "time"
\* The ephemeris time of a UTC time: a strictly increasing function.
utc2et(p) == p.t

NotChecked == [done |-> FALSE, ok |-> FALSE, message |-> ""]
TimesError(m) == [done |-> TRUE, ok |-> FALSE, message |-> m]
TimesOk == [done |-> TRUE, ok |-> TRUE, message |-> ""]

\* A faulty variant: the increment has to finish before the mission does.
check_times_StrictFinish(msn_strt, inc_strt, inc_stop, mis_stop) ==
    IF \E p \in { msn_strt, inc_strt, inc_stop, mis_stop } : ~Loadable(p)
    THEN TimesError("Provided dates are not loadable with current setup.")
    ELSE IF \/ ~(utc2et(msn_strt) < utc2et(inc_strt))
            \/ ~(utc2et(inc_strt) <= utc2et(inc_stop))
            \/ ~(utc2et(inc_stop) < utc2et(mis_stop))
            \/ ~(utc2et(msn_strt) < utc2et(mis_stop))
    THEN TimesError("Provided dates are note correct. Check the archive coverage")
    ELSE TimesOk

\* A faulty variant: the mission has to last longer than one unit of time.
check_times_FourthDecides(msn_strt, inc_strt, inc_stop, mis_stop) ==
    IF \E p \in { msn_strt, inc_strt, inc_stop, mis_stop } : ~Loadable(p)
    THEN TimesError("Provided dates are not loadable with current setup.")
    ELSE IF \/ ~(utc2et(msn_strt) < utc2et(inc_strt))
            \/ ~(utc2et(inc_strt) <= utc2et(inc_stop))
            \/ ~(utc2et(inc_stop) <= utc2et(mis_stop))
            \/ ~(utc2et(msn_strt) + 1 < utc2et(mis_stop))
    THEN TimesError("Provided dates are note correct. Check the archive coverage")
    ELSE TimesOk

\* check_times: the four conversions in a try block, then one condition of
\* four comparisons; error_message raises.
check_times(msn_strt, inc_strt, inc_stop, mis_stop) ==
    IF \E p \in { msn_strt, inc_strt, inc_stop, mis_stop } : ~Loadable(p)
    THEN TimesError("Provided dates are not loadable with current setup.")
    ELSE IF \/ ~(utc2et(msn_strt) < utc2et(inc_strt))
            \/ ~(utc2et(inc_strt) <= utc2et(inc_stop))
            \/ ~(utc2et(inc_stop) <= utc2et(mis_stop))
            \/ ~(utc2et(msn_strt) < utc2et(mis_stop))
    THEN TimesError("Provided dates are note correct. Check the archive coverage")
    ELSE TimesOk

\* ------------------------------------------------------------------------
\* KernelTypeResolver: Setup.load_kernels (src/npb/classes/setup.py)
\* ------------------------------------------------------------------------

\* The most (type, pattern) entries of kernels_to_load.
MaxPatterns == 2

\* The keys of kernels_to_load.  load_kernels dispatches on 'fk' in type,
\* 'sclk' in type, 'pck' in type, 'lsk' in type, in this order; none of these
\* four keys contains another's text.
KernelTypes == { "lsk", "pck", "fk", "sclk" }

\* Sample kernel file names and patterns: a pattern that matches both files
\* ('.' matches any character), one that is a file name itself, and one that
\* matches nothing.
KernelFiles == { << "n", "1" >>, << "n", "2" >> }
KernelPatterns == { << "n", "." >>, << "n", "2" >>, << "z" >> }

\* re.search(pattern, f) for patterns of literal characters and '.'.
re_search(pattern, f) ==
    \E k \in 1..(Len(f) - Len(pattern) + 1) :
        \A i \in 1..Len(pattern) :
            pattern[i] = "." \/ pattern[i] = f[k + i - 1]

\* A subdirectory of kernels_directory: missing, or its entries.
MissingDirectory == [present |-> FALSE, files |-> {}]
Directory(files) == [present |-> TRUE, files |-> files]

\* The patterns configured for one type, in the order of the configuration.
RECURSIVE PatternsOf(_, _)
PatternsOf(to_load, type) ==
    IF to_load = << >> THEN << >>
    ELSE IF Head(to_load).type = type
    THEN << Head(to_load).pattern >> \o PatternsOf(Tail(to_load), type)
    ELSE PatternsOf(Tail(to_load), type)

\* A faulty variant: of several candidates the first is taken.
Latest_First(candidates) == sort(candidates)[1]

\* if len(x) > 1: x.sort(); x[-1]
Latest(candidates) == sort(candidates)[Cardinality(candidates)]

\* A faulty variant: the subdirectory is listed before the pattern is tested
\* for being an existing path.
RECURSIVE Resolve_ListFirst(_, _, _, _, _)
Resolve_ListFirst(pats, type, dir, existing, acc) ==
    IF pats = << >> THEN acc
    ELSE LET pattern == Head(pats)
             found == { f \in dir.files : re_search(pattern, f) }
         IN  IF ~dir.present
             THEN [acc EXCEPT !.raised = TRUE]
             ELSE IF pattern \in existing
             THEN Resolve_ListFirst(Tail(pats), type, dir, existing,
                          [acc EXCEPT !.files = Append(@, pattern),
                                      !.furnished =
                                          Append(@, [dir |-> "", file |-> pattern])])
             ELSE IF found # {}
             THEN Resolve_ListFirst(Tail(pats), type, dir, existing,
                          [acc EXCEPT !.files = Append(@, Latest(found)),
                                      !.furnished =
                                          Append(@, [dir |-> type,
                                                     file |-> Latest(found)])])
             ELSE Resolve_ListFirst(Tail(pats), type, dir, existing, acc)

\* One "for pattern in ..._patterns" loop.  An existing path is taken as it
\* is; otherwise the subdirectory is listed (os.listdir raises when it is
\* missing) and the last of the sorted matches is taken, if there is any.
\* Each file taken is furnished.
RECURSIVE Resolve(_, _, _, _, _)
Resolve(pats, type, dir, existing, acc) ==
    IF pats = << >> THEN acc
    ELSE LET pattern == Head(pats)
             found == { f \in dir.files : re_search(pattern, f) }
         IN  IF pattern \in existing
             THEN Resolve(Tail(pats), type, dir, existing,
                          [acc EXCEPT !.files = Append(@, pattern),
                                      !.furnished =
                                          Append(@, [dir |-> "", file |-> pattern])])
             ELSE IF ~dir.present
             THEN [acc EXCEPT !.raised = TRUE]
             ELSE IF found # {}
             THEN Resolve(Tail(pats), type, dir, existing,
                          [acc EXCEPT !.files = Append(@, Latest(found)),
                                      !.furnished =
                                          Append(@, [dir |-> type,
                                                     file |-> Latest(found)])])
             ELSE Resolve(Tail(pats), type, dir, existing, acc)

NothingResolved == [files |-> << >>, furnished |-> << >>, raised |-> FALSE]

\* self.fks, self.sclks, self.lsk before load_kernels has set them.
NoKernelAttributes ==
    [stored |-> FALSE, fks |-> << >>, sclks |-> << >>, lsk |-> << >>]

KernelsNotLoaded ==
    [done |-> FALSE, error |-> "", at |-> "", lsks |-> << >>, log |-> << >>]

\* What a call of load_kernels leaves behind: the outcome (error = "" when it
\* returns), the kernels it furnished, and the attributes it set.
Returned(lsks, log, furnished, fks, sclks, lsk) ==
    [loaded |-> [done |-> TRUE, error |-> "", at |-> "", lsks |-> lsks,
                 log |-> log],
     furnished |-> furnished,
     attributes |-> [stored |-> TRUE, fks |-> fks, sclks |-> sclks,
                     lsk |-> lsk]]
Raised(error, at, lsks, log, furnished) ==
    [loaded |-> [done |-> TRUE, error |-> error, at |-> at, lsks |-> lsks,
                 log |-> log],
     furnished |-> furnished,
     attributes |-> NoKernelAttributes]

\* A faulty variant: one LSK is already too many.
MoreThanOneLsk_Any(lsks) == Len(lsks) >= 1

\* if len(lsks) > 1: error_message('Only one LSK should be obtained.')
MoreThanOneLsk(lsks) == Len(lsks) > 1

\* The log line of a category: "not found" when the tested list is empty.
LogLine(type, tested) ==
    IF tested = << >> THEN << type \o " not found" >>
    ELSE << type \o " loaded" >>

\* load_kernels.  After the LSK loop the code tests the variable lsk, the
\* last configured LSK pattern (unbound when no LSK pattern is configured),
\* not the list lsks; at its end it stores fks, sclks and that same lsk.
load_kernels(to_load, dirs, existing) ==
    LET lsk_patterns == PatternsOf(to_load, "lsk")
        L == Resolve(lsk_patterns, "lsk", dirs["lsk"], existing, NothingResolved)
        P == Resolve(PatternsOf(to_load, "pck"), "pck", dirs["pck"], existing,
                     NothingResolved)
        F == Resolve(PatternsOf(to_load, "fk"), "fk", dirs["fk"], existing,
                     NothingResolved)
        S == Resolve(PatternsOf(to_load, "sclk"), "sclk", dirs["sclk"],
                     existing, NothingResolved)
        lsk == lsk_patterns[Len(lsk_patterns)]
        logL == LogLine("lsk", lsk)
        logP == logL \o LogLine("pck", P.files)
        logF == logP \o LogLine("fk", F.files)
        logS == logF \o LogLine("sclk", S.files)
        fL == L.furnished
        fP == fL \o P.furnished
        fF == fP \o F.furnished
        fS == fF \o S.furnished
    IN  IF L.raised
        THEN Raised("FileNotFoundError", "lsk", L.files, << >>, fL)
        ELSE IF lsk_patterns = << >>
        THEN Raised("UnboundLocalError", "lsk", L.files, << >>, fL)
        ELSE IF MoreThanOneLsk(L.files)
        THEN Raised("Only one LSK should be obtained.", "lsk", L.files, logL, fL)
        ELSE IF P.raised
        THEN Raised("FileNotFoundError", "pck", L.files, logL, fP)
        ELSE IF F.raised
        THEN Raised("FileNotFoundError", "fk", L.files, logP, fF)
        ELSE IF S.raised
        THEN Raised("FileNotFoundError", "sclk", L.files, logF, fS)
        ELSE Returned(L.files, logS, fS, F.files, S.files, lsk)

\* The configurations and the file systems load_kernels is applied to.
KernelsToLoad ==
    SeqsBetween([type : KernelTypes, pattern : KernelPatterns], 0, MaxPatterns)
KernelDirectories ==
    { d \in [KernelTypes -> { MissingDirectory } \cup
                            { Directory(fs) : fs \in SUBSET KernelFiles }] :
        \A t \in KernelTypes \ { "lsk" } :
            d[t] \in { MissingDirectory, Directory(KernelFiles) } }
ExistingPaths == SUBSET { << "n", "2" >>, << "z" >> }

\* ------------------------------------------------------------------------
\* Configuration: Setup.__init__ and Setup.check_configuration
\* (src/npb/classes/setup.py)
\* ------------------------------------------------------------------------

\* A parameter of the configuration file: not an attribute of the setup
\* object when the file has no such element, otherwise its text.
NotConfigured == [given |-> FALSE, text |-> << >>]
Configured(s) == [given |-> TRUE, text |-> s]

\* hasattr(self, x) and self.x
Provided(p) == p.given /\ p.text # << >>

\* The regular expressions of the dates, one element per character they
\* consume: "#" is [0-9], "." is any character, the others are themselves.
DateRegex == << "#", "#", "#", "#", "-", "#", "#", "-", "#", "#" >>
ClockRegex == << "T", "#", "#", ":", "#", "#", ":", "#", "#" >>
InfoMod2Regex == DateRegex \o ClockRegex \o << ".", "#", "#", "#", "Z" >>
MakeLblRegex == DateRegex \o ClockRegex \o << "Z" >>

\* pattern.match(s): the regular expression has to match at the beginning
\* of s, whatever follows.
re_match(regex, s) ==
    /\ Len(s) >= Len(regex)
    /\ \A i \in 1..Len(regex) :
           IF regex[i] = "#" THEN IsDigit(s[i])
           ELSE IF regex[i] = "." THEN TRUE
           ELSE s[i] = regex[i]

\* error_message raises RuntimeError with one of these messages.
ReleaseDateError == "release_date parameter does not match the required format: YYYY-MM-DD."
EndOfLineError == "End of Line provided via configuration is not CRLF nor LF"
DateFormatError == "date_format parameter is not infomod2 or makelbl."
MissionStartError == "mission_start parameter does not match the required format"
MissionFinishError == "mission_finish does not match the required format"
IncrementStartError == "increment_start parameter does not match the required format"
IncrementFinishError == "increment_finish does not match the required format"
PairingError == "If provided via configuration, increment_start and increment_finish parameters need to be provided together."
DirectoryError == "Directory does not exist"
TemplatesPathError == "Path provided/derived for templates is not available"
TemplateMissingError == "Template has not been provided."
PatternNotProvidedError == "The meta-kernel pattern is not provided"
PatternsNotDefinedError == "The meta-kernel patterns for are not defined via configuration"

\* The first block of check_configuration: the regular expression of the
\* date format, the four format checks, the pairing check (made only when
\* both increment attributes exist).  "" when nothing is raised.
check_dates(format, times) ==
    LET pattern == IF format = "infomod2" THEN InfoMod2Regex ELSE MakeLblRegex
        bad(p) == Provided(p) /\ ~re_match(pattern, p.text)
    IN  IF format \notin { "infomod2", "makelbl" } THEN DateFormatError
        ELSE IF bad(times.mission_start) THEN MissionStartError
        ELSE IF bad(times.mission_finish) THEN MissionFinishError
        ELSE IF bad(times.increment_start) THEN IncrementStartError
        ELSE IF bad(times.increment_finish) THEN IncrementFinishError
        ELSE IF /\ times.increment_start.given
                /\ times.increment_finish.given
                /\ (times.increment_start.text = << >>)
                       # (times.increment_finish.text = << >>)
        THEN PairingError
        ELSE ""

\* The components of a path: the names between its separators.
RECURSIVE SplitPath(_, _, _)
SplitPath(p, k, part) ==
    LET done == IF part = << >> THEN << >> ELSE << part >>
    IN  IF k > Len(p) THEN done
        ELSE IF p[k] = "/" THEN done \o SplitPath(p, k + 1, << >>)
        ELSE SplitPath(p, k + 1, Append(part, p[k]))

\* The directory a path denotes for a process whose current directory is
\* at: a path that begins with the separator is taken from the root.
Entry(p, at) ==
    IF p # << >> /\ p[1] = "/" THEN SplitPath(p, 1, << >>)
    ELSE SplitPath(at, 1, << >>) \o SplitPath(p, 1, << >>)

\* The file system is the set of its directories; the root is always there.
RootEntry == << >>
Root == << "/" >>

\* os.path.isdir(p)
isdir(p, at, fs) ==
    p # << >> /\ (Entry(p, at) = RootEntry \/ Entry(p, at) \in fs)

\* os.mkdir(p) inside try/except: the directory is created when it is not
\* there and its parent is; otherwise mkdir raises, which is printed.
mkdir(p, at, fs) ==
    LET e == Entry(p, at)
    IN  IF p = << >> \/ e = RootEntry \/ e \in fs THEN fs
        ELSE IF Len(e) > 1 /\ SubSeq(e, 1, Len(e) - 1) \notin fs THEN fs
        ELSE fs \cup { e }

\* sub in s
Contains(s, sub) == Occurrences(s, sub) # {}

\* s.replace(old, new): every occurrence of old, from the left, without
\* overlap.
RECURSIVE str_replace(_, _, _)
str_replace(s, old, new) ==
    IF Len(s) < Len(old) \/ old = << >> THEN s
    ELSE IF SubSeq(s, 1, Len(old)) = old
    THEN new \o str_replace(SubSeq(s, Len(old) + 1, Len(s)), old, new)
    ELSE << s[1] >> \o str_replace(Tail(s), old, new)

\* /{mission_accronym}_spice
SpiceSuffix == << "/", "i", "n", "s", "i", "g", "h", "t", "_", "s", "p", "i", "c", "e" >>

\* The second block of check_configuration, between os.chdir('/') and
\* os.chdir(cwd): relative directories are made absolute, the staging
\* directory is created when it is missing.  The first missing directory
\* raises, and the process stays in the root directory.
check_directories(dirs, fs, cwd0) ==
    LET under(p) == cwd0 \o << "/" >> \o p
        wd == IF isdir(under(dirs.working_directory), Root, fs)
              THEN under(dirs.working_directory)
              ELSE dirs.working_directory
        s0 == dirs.staging_directory
        sd == IF isdir(under(s0), Root, fs) THEN under(s0) \o SpiceSuffix
              ELSE IF ~isdir(s0, Root, fs) THEN s0
              ELSE IF ~Contains(s0, SpiceSuffix) THEN s0 \o SpiceSuffix
              ELSE s0
        fs1 == IF ~isdir(under(s0), Root, fs) /\ ~isdir(s0, Root, fs)
               THEN mkdir(s0, Root, fs)
               ELSE fs
        fd == IF isdir(under(dirs.final_directory), Root, fs1)
              THEN under(dirs.final_directory)
              ELSE dirs.final_directory
        kd == IF isdir(under(dirs.kernels_directory), Root, fs1)
              THEN under(dirs.kernels_directory)
              ELSE dirs.kernels_directory
        d1 == [dirs EXCEPT !.working_directory = wd]
        d2 == [d1 EXCEPT !.staging_directory = sd]
        d3 == [d2 EXCEPT !.final_directory = fd]
        d4 == [d3 EXCEPT !.kernels_directory = kd]
    IN  IF ~isdir(wd, Root, fs)
        THEN [error |-> DirectoryError, directories |-> d1,
              filesystem |-> fs, cwd |-> Root]
        ELSE IF ~isdir(fd, Root, fs1)
        THEN [error |-> DirectoryError, directories |-> d3,
              filesystem |-> fs1, cwd |-> Root]
        ELSE IF ~isdir(kd, Root, fs1)
        THEN [error |-> DirectoryError, directories |-> d4,
              filesystem |-> fs1, cwd |-> Root]
        ELSE [error |-> "", directories |-> d4,
              filesystem |-> fs1, cwd |-> cwd0]

\* A version of the information model, a.b.c.d, as its four numbers.  The
\* code compares float(f'{a:03d}{b:03d}{c:03d}{d:03d}').
VersionNumber(v) ==
    int(ZeroPad(v[1], 3) \o ZeroPad(v[2], 3) \o ZeroPad(v[3], 3)
        \o ZeroPad(v[4], 3))

\* sorted(...) of a set of numbers.
RECURSIVE sorted(_)
sorted(S) ==
    IF S = {} THEN << >>
    ELSE LET lo == CHOOSE x \in S : \A y \in S : x <= y
         IN  << lo >> \o sorted(S \ {lo})

\* self.templates_directory: not an attribute, the directory of a shipped
\* version, or a path made of a number.
NoTemplates == [kind |-> "unset", version |-> << >>, number |-> 0]
UserTemplates == [kind |-> "configured", version |-> << >>, number |-> 0]
TemplatesOf(v) == [kind |-> "schema", version |-> v, number |-> 0]
TemplatesNumber(n) == [kind |-> "number", version |-> << >>, number |-> n]

\* The while loop that selects the templates.  schemas is in the order of
\* glob, schemas_eval is sorted; i counts from 0 as in the code, and
\* schemas[i - 1] with i = 0 is the last element of schemas.  When the loop
\* ends without a choice, schema still is the number the for loop before it
\* left in it.
RECURSIVE select_schema(_, _, _, _)
select_schema(config_schema, schemas, schemas_eval, i) ==
    IF i >= Len(schemas_eval)
    THEN TemplatesNumber(VersionNumber(schemas[Len(schemas)]))
    ELSE IF config_schema < schemas_eval[i + 1]
    THEN TemplatesOf(IF i = 0 THEN schemas[Len(schemas)] ELSE schemas[i])
    ELSE IF config_schema > schemas_eval[i + 1]
    THEN TemplatesOf(schemas[i + 1])
    ELSE select_schema(config_schema, schemas, schemas_eval, i + 1)

\* The release of the information model whose templates are the reference.
ReferenceVersion == << 1, 5, 0, 0 >>

\* os.path.basename(x[:-1]) for a file x of a templates directory.
LabelOf(x) == SubSeq(x, 1, Len(x) - 1)

\* The files of the shipped templates directory of version v.
TemplateFiles(shipped, v) ==
    UNION { shipped[k].files : k \in { j \in 1..Len(shipped) :
                                           shipped[j].version = v } }

\* The third block of check_configuration.  shipped is the listing of
\* {root_dir}templates/*/ in the order of glob.
check_templates(tdir, pds, model, shipped) ==
    LET schemas == [k \in 1..Len(shipped) |-> shipped[k].version]
        schemas_eval == sorted({ VersionNumber(schemas[k]) :
                                     k \in 1..Len(schemas) })
        labels_check == { LabelOf(x) : x \in TemplateFiles(shipped, ReferenceVersion) }
        labels == { LabelOf(x) : x \in TemplateFiles(shipped, tdir.version) }
    IN  IF tdir.kind = "unset" /\ pds = "4"
        THEN IF shipped = << >>
             THEN [error |-> "UnboundLocalError", templates_directory |-> tdir]
             ELSE [error |-> "",
                   templates_directory |->
                       select_schema(VersionNumber(model), schemas,
                                     schemas_eval, 0)]
        ELSE IF pds = "4"
        THEN IF \A k \in 1..Len(shipped) : shipped[k].version # tdir.version
             THEN [error |-> TemplatesPathError, templates_directory |-> tdir]
             ELSE IF ~(labels_check \subseteq labels)
             THEN [error |-> TemplateMissingError, templates_directory |-> tdir]
             ELSE [error |-> "", templates_directory |-> tdir]
        ELSE [error |-> "", templates_directory |-> tdir]

\* The check of one meta-kernel name: for each pattern, the pattern has to
\* occur in the working copy; '$' + pattern is then replaced by nothing.  A
\* '$' left at the end is an error.
RECURSIVE check_name(_, _)
check_name(metal_name_check, pats) ==
    IF pats = << >>
    THEN IF Contains(metal_name_check, << "$" >>)
         THEN PatternsNotDefinedError
         ELSE ""
    ELSE IF ~Contains(metal_name_check, Head(pats))
    THEN PatternNotProvidedError
    ELSE check_name(str_replace(metal_name_check, << "$" >> \o Head(pats),
                                << >>),
                    Tail(pats))

\* The fourth block of check_configuration: for metak in self.mk.
RECURSIVE check_meta_kernels(_)
check_meta_kernels(metaks) ==
    IF metaks = << >> THEN ""
    ELSE IF check_name(Head(metaks).name, Head(metaks).patterns) # ""
    THEN check_name(Head(metaks).name, Head(metaks).patterns)
    ELSE check_meta_kernels(Tail(metaks))

\* self.mk: not an attribute, or the list of the configured meta-kernels.
NoMk == [given |-> FALSE, list |-> << >>]
Mk(list) == [given |-> TRUE, list |-> list]

\* check_configuration: the four blocks in their order; the first error
\* raised ends it.  It returns what it leaves behind.
check_configuration(format, times, dirs, fs, cwd0, tdir, pds, model, shipped, metaks) ==
    LET dates == check_dates(format, times)
        D == check_directories(dirs, fs, cwd0)
        T == check_templates(tdir, pds, model, shipped)
        M == IF metaks.given THEN check_meta_kernels(metaks.list) ELSE ""
    IN  IF dates # ""
        THEN [error |-> dates, directories |-> dirs, filesystem |-> fs,
              cwd |-> cwd0, templates_directory |-> tdir]
        ELSE IF D.error # ""
        THEN [error |-> D.error, directories |-> D.directories,
              filesystem |-> D.filesystem, cwd |-> D.cwd,
              templates_directory |-> tdir]
        ELSE [error |-> IF T.error # "" THEN T.error ELSE M,
              directories |-> D.directories, filesystem |-> D.filesystem,
              cwd |-> D.cwd, templates_directory |-> T.templates_directory]

\* The constructor, from the release date on: the release date is checked
\* or set to today, a configured templates directory is replaced by the
\* shipped one of the information model, the date format gets its default,
\* the end of line is checked.
Today == << "2", "0", "2", "1", "-", "0", "4", "-", "0", "3" >>
setup_init(date, tdir, model, format, eol) ==
    IF date.given /\ ~re_match(DateRegex, date.text)
    THEN [error |-> ReleaseDateError, release_date |-> date,
          templates_directory |-> tdir, date_format |-> format]
    ELSE [error |-> IF eol \in { "CRLF", "LF" } THEN "" ELSE EndOfLineError,
          release_date |-> IF date.given THEN date ELSE Configured(Today),
          templates_directory |->
              IF tdir.kind = "unset" THEN tdir ELSE TemplatesOf(model),
          date_format |-> IF format = "" THEN "infomod2" ELSE format]

\* ------------------------------------------------------------------------
\* State
\* ------------------------------------------------------------------------

NotMatched == [status |-> "none", values |-> << >>]

MatchIdle ==
    /\ name = << >>
    /\ name_w_pattern = << >>
    /\ patterns = << >>
    /\ substituted = << >>
    /\ values = NotMatched

ReleaseIdle ==
    /\ final_area = {}
    /\ working_area = {}
    /\ release = << >>
    /\ current_release = << >>
    /\ increment = FALSE
    /\ globbed = << >>
    /\ release_pc = "idle"

TimesIdle ==
    /\ mission_start = Absent
    /\ mission_finish = Absent
    /\ increment_start = Absent
    /\ increment_finish = Absent
    /\ times_checked = [NotChecked EXCEPT !.message = "idle"]

KernelsIdle ==
    /\ kernels_to_load = << >>
    /\ existing_paths = {}
    /\ kernels_directory = [t \in KernelTypes |-> MissingDirectory]
    /\ kernel_pool = << >>
    /\ setup_kernels = NoKernelAttributes
    /\ kernels_loaded = [KernelsNotLoaded EXCEPT !.at = "idle"]

\* A configuration that passes every check: no dates, relative directories
\* that exist under the current directory, the reference templates, no
\* meta-kernel.
Name(c) == << c >>
CurrentDirectory == << "/", "c" >>
NoTimes ==
    [mission_start |-> NotConfigured, mission_finish |-> NotConfigured,
     increment_start |-> NotConfigured, increment_finish |-> NotConfigured]
RelativeDirectories ==
    [working_directory |-> << "w" >>, staging_directory |-> << "s" >>,
     final_directory |-> << "f" >>, kernels_directory |-> << "k" >>]
DirectoriesInPlace ==
    { << Name("c") >>, << Name("c"), Name("w") >>, << Name("c"), Name("s") >>,
      << Name("c"), Name("f") >>, << Name("c"), Name("k") >> }
ReferenceFiles == { << "b", "1" >>, << "c", "1" >> }
ReferenceTemplates ==
    << [version |-> ReferenceVersion, files |-> ReferenceFiles] >>

DatesDefault ==
    /\ release_date = NotConfigured
    /\ date_format = ""
    /\ end_of_line = "LF"
    /\ coverage_times = NoTimes
DirectoriesDefault ==
    /\ directories = RelativeDirectories
    /\ filesystem = DirectoriesInPlace
TemplatesDefault ==
    /\ templates_directory = NoTemplates
    /\ pds_version = "4"
    /\ information_model = ReferenceVersion
    /\ shipped_templates = ReferenceTemplates

\* No setup object is being constructed.
ConfigIdle ==
    /\ release_date = NotConfigured
    /\ date_format = ""
    /\ end_of_line = ""
    /\ coverage_times = << >>
    /\ directories = << >>
    /\ filesystem = {}
    /\ cwd = << >>
    /\ templates_directory = NoTemplates
    /\ pds_version = ""
    /\ information_model = << >>
    /\ shipped_templates = << >>
    /\ mk = NoMk
    /\ config_pc = "idle"
    /\ config_error = ""

matchVars == << name, name_w_pattern, patterns, substituted, values >>
releaseVars == << final_area, working_area, release, current_release,
                  increment, globbed, release_pc >>
timesVars == << mission_start, mission_finish, increment_start,
                increment_finish, times_checked >>
kernelVars == << kernels_to_load, existing_paths, kernels_directory,
                 kernel_pool, setup_kernels, kernels_loaded >>
configVars == << release_date, date_format, end_of_line, coverage_times,
                 directories, filesystem, cwd, templates_directory,
                 pds_version, information_model, shipped_templates, mk,
                 config_pc, config_error >>
vars == << matchVars, releaseVars, timesVars, kernelVars, configVars >>

\* The inputs of one call: a template, the declared fields, and a file name
\* that is either arbitrary or built from the template by substitution.
InitMatch ==
    /\ name_w_pattern \in Templates
    /\ patterns \in FieldLists
    /\ \/ /\ name \in Names
          /\ substituted = << >>
       \/ /\ ~UndefinedField(name_w_pattern, patterns)
          /\ substituted \in Substitutions(name_w_pattern, patterns)
          /\ name = Flatten(substituted)
    /\ values = NotMatched
    /\ ReleaseIdle
    /\ TimesIdle
    /\ KernelsIdle
    /\ ConfigIdle

\* values = match_patterns(name, name_w_pattern, patterns)
MatchPatterns ==
    /\ name_w_pattern # << >>
    /\ values = NotMatched
    /\ values' = match(name, name_w_pattern, patterns)
    /\ UNCHANGED << name, name_w_pattern, patterns, substituted >>
    /\ UNCHANGED << releaseVars, timesVars, kernelVars, configVars >>

NextMatch == MatchPatterns

SpecMatch == InitMatch /\ [][NextMatch]_vars

\* The final and the working area as set_release finds them; the setup
\* object has no release yet.
InitRelease ==
    /\ final_area \in Areas(FinalNames)
    /\ working_area \in Areas(WorkingNames)
    /\ release = << >>
    /\ current_release = << >>
    /\ increment = FALSE
    /\ globbed = << >>
    /\ release_pc = "start"
    /\ MatchIdle
    /\ TimesIdle
    /\ KernelsIdle
    /\ ConfigIdle

\* Setup.set_release
SetRelease ==
    /\ release_pc = "start"
    /\ \E r \in { set_release(final_area, working_area) } :
           /\ release' = r.release
           /\ current_release' = r.current_release
           /\ increment' = r.increment
           /\ globbed' = r.globbed
    /\ release_pc' = "done"
    /\ UNCHANGED << final_area, working_area >>
    /\ UNCHANGED << matchVars, timesVars, kernelVars, configVars >>

NextRelease == SetRelease

SpecRelease == InitRelease /\ [][NextRelease]_vars

\* The four time parameters as the configuration left them.
InitTimes ==
    /\ mission_start \in TimeParameters
    /\ mission_finish \in TimeParameters
    /\ increment_start \in TimeParameters
    /\ increment_finish \in TimeParameters
    /\ times_checked = NotChecked
    /\ MatchIdle
    /\ ReleaseIdle
    /\ KernelsIdle
    /\ ConfigIdle

\* Setup.check_times
CheckTimes ==
    /\ times_checked = NotChecked
    /\ times_checked' = check_times(mission_start, increment_start,
                                    increment_finish, mission_finish)
    /\ UNCHANGED << mission_start, mission_finish, increment_start,
                    increment_finish >>
    /\ UNCHANGED << matchVars, releaseVars, kernelVars, configVars >>

NextTimes == CheckTimes

SpecTimes == InitTimes /\ [][NextTimes]_vars

\* The configuration and the file system as load_kernels finds them; no
\* kernel is furnished and no kernel attribute is set yet.
InitKernels ==
    /\ kernels_to_load \in KernelsToLoad
    /\ existing_paths \in ExistingPaths
    /\ kernels_directory \in KernelDirectories
    /\ kernel_pool = << >>
    /\ setup_kernels = NoKernelAttributes
    /\ kernels_loaded = KernelsNotLoaded
    /\ MatchIdle
    /\ ReleaseIdle
    /\ TimesIdle
    /\ ConfigIdle

\* Setup.load_kernels
LoadKernels ==
    /\ kernels_loaded = KernelsNotLoaded
    /\ \E r \in { load_kernels(kernels_to_load, kernels_directory,
                                existing_paths) } :
           /\ kernels_loaded' = r.loaded
           /\ kernel_pool' = kernel_pool \o r.furnished
           /\ setup_kernels' = r.attributes
    /\ UNCHANGED << kernels_to_load, existing_paths, kernels_directory >>
    /\ UNCHANGED << matchVars, releaseVars, timesVars, configVars >>

NextKernels == LoadKernels

SpecKernels == InitKernels /\ [][NextKernels]_vars

\* The longest meta-kernel name, in pieces.
MaxPieces == 3

\* Sample texts of the dates: a time of each format, one without its final
\* Z, and a well-formed one followed by something else.
Clock == << "T", "2", "0", ":", "5", "3", ":", "0", "0" >>
MakeLblTime == Today \o Clock \o << "Z" >>
InfoMod2Time == Today \o Clock \o << ".", "0", "0", "0", "Z" >>
TimeTexts ==
    { MakeLblTime, InfoMod2Time, Today \o Clock, MakeLblTime \o << "x" >> }
CoverageValues ==
    { NotConfigured, Configured(<< >>) } \cup { Configured(t) : t \in TimeTexts }
DateFormats == { "", "infomod2", "makelbl", "other" }
ReleaseDates ==
    { NotConfigured, Configured(Today), Configured(<< "2", "0", "2", "1" >>),
      Configured(Today \o Clock),
      Configured(<< "2", "0", "2", "1", "-", "4", "-", "3" >>) }

\* Sample directories: relative and absolute ones, a staging directory that
\* ends with the mission's suffix, and one whose parent does not exist.
WorkingDirectories == { << "w" >>, << "/", "w" >> }
StagingDirectories ==
    { << "s" >>, << "/", "s" >>, << "/", "s" >> \o SpiceSuffix,
      << "/", "x", "/", "s" >> }
SampleEntries ==
    { << Name("c"), Name("w") >>, << Name("w") >>, << Name("c"), Name("s") >>,
      << Name("s") >>, << Name("s"), Tail(SpiceSuffix) >>,
      << Name("c"), Name("f") >>, << Name("c"), Name("k") >> }
Filesystems ==
    { { << Name("c") >> } \cup fs : fs \in
        { x \in SUBSET SampleEntries :
            << Name("s"), Tail(SpiceSuffix) >> \in x => << Name("s") >> \in x } }

\* Sample versions of the information model and shipped templates: each
\* listing holds distinct versions in any order, the reference version with
\* the reference files.
ShippedVersions == { ReferenceVersion, << 1, 11, 0, 0 >>, << 1, 14, 0, 0 >> }
InformationModels ==
    ShippedVersions \cup { << 1, 4, 0, 0 >>, << 1, 16, 0, 0 >> }
TemplateFileSets ==
    { ReferenceFiles, { << "b", "2" >>, << "c", "1" >> }, { << "c", "1" >> } }
ShippedTemplates ==
    { t \in SeqsBetween([version : ShippedVersions, files : TemplateFileSets],
                        0, Cardinality(ShippedVersions)) :
        /\ \A i, j \in 1..Len(t) : i # j => t[i].version # t[j].version
        /\ \A i \in 1..Len(t) :
               t[i].version = ReferenceVersion => t[i].files = ReferenceFiles }

\* Sample meta-kernel names, built from placeholders, upper case text and a
\* separator, and the patterns declared for them, one or two.
Pieces ==
    { << "$", "A" >>, << "$", "B" >>, << "$", "A", "B" >>,
      << "A" >>, << "B" >>, << "_" >> }
Tokens == { << "A" >>, << "B" >>, << "A", "B" >> }
MkNames == { Flatten(ps) : ps \in SeqsBetween(Pieces, 1, MaxPieces) }
MkPatternLists ==
    { << t >> : t \in Tokens } \cup { << t, u >> : t \in Tokens, u \in Tokens }
MetaKernels == [name : MkNames, patterns : MkPatternLists]
ValidMk ==
    [name |-> << "$", "A", "_", "$", "B" >>,
     patterns |-> << << "A" >>, << "B" >> >>]
InvalidMk == [name |-> << "$", "A" >>, patterns |-> << << "B" >> >>]
MkLists ==
    { NoMk } \cup { Mk(<< m >>) : m \in MetaKernels }
    \cup { Mk(<< ValidMk, m >>) : m \in { ValidMk, InvalidMk } }

\* The configuration file and the file system as the constructor finds
\* them.  One part of the configuration is drawn from its samples, the
\* others pass their checks.
InitConfig ==
    /\ \/ /\ release_date \in ReleaseDates
          /\ date_format \in DateFormats
          /\ end_of_line \in { "CRLF", "LF", "CR" }
          /\ coverage_times = NoTimes
          /\ templates_directory \in { NoTemplates, UserTemplates }
          /\ pds_version = "4"
          /\ information_model = ReferenceVersion
          /\ shipped_templates = ReferenceTemplates
          /\ DirectoriesDefault
          /\ mk = NoMk
       \/ /\ release_date = NotConfigured
          /\ date_format \in DateFormats
          /\ end_of_line = "LF"
          /\ coverage_times \in [mission_start : CoverageValues,
                                 mission_finish : CoverageValues,
                                 increment_start : CoverageValues,
                                 increment_finish : CoverageValues]
          /\ DirectoriesDefault
          /\ TemplatesDefault
          /\ mk = NoMk
       \/ /\ DatesDefault
          /\ directories \in [working_directory : WorkingDirectories,
                              staging_directory : StagingDirectories,
                              final_directory : { << "f" >> },
                              kernels_directory : { << "k" >> }]
          /\ filesystem \in Filesystems
          /\ TemplatesDefault
          /\ mk = NoMk
       \/ /\ DatesDefault
          /\ DirectoriesDefault
          /\ templates_directory \in { NoTemplates, UserTemplates }
          /\ pds_version \in { "3", "4" }
          /\ information_model \in InformationModels
          /\ shipped_templates \in ShippedTemplates
          /\ mk = NoMk
       \/ /\ DatesDefault
          /\ DirectoriesDefault
          /\ TemplatesDefault
          /\ mk \in MkLists
    /\ cwd = CurrentDirectory
    /\ config_pc = "new"
    /\ config_error = ""
    /\ MatchIdle
    /\ ReleaseIdle
    /\ TimesIdle
    /\ KernelsIdle

\* Setup.__init__
SetupInit ==
    /\ config_pc = "new"
    /\ \E r \in { setup_init(release_date, templates_directory,
                             information_model, date_format, end_of_line) } :
           /\ config_pc' = IF r.error = "" THEN "constructed" ELSE "failed"
           /\ config_error' = r.error
           /\ release_date' = r.release_date
           /\ templates_directory' = r.templates_directory
           /\ date_format' = r.date_format
    /\ UNCHANGED << end_of_line, coverage_times, directories, filesystem, cwd,
                    pds_version, information_model, shipped_templates, mk >>
    /\ UNCHANGED << matchVars, releaseVars, timesVars, kernelVars >>

\* Setup.check_configuration
CheckConfiguration ==
    /\ config_pc = "constructed"
    /\ \E r \in { check_configuration(date_format, coverage_times, directories,
                                      filesystem, cwd, templates_directory,
                                      pds_version, information_model,
                                      shipped_templates, mk) } :
           /\ config_pc' = IF r.error = "" THEN "checked" ELSE "failed"
           /\ config_error' = r.error
           /\ directories' = r.directories
           /\ filesystem' = r.filesystem
           /\ cwd' = r.cwd
           /\ templates_directory' = r.templates_directory
    /\ UNCHANGED << release_date, date_format, end_of_line, coverage_times,
                    pds_version, information_model, shipped_templates, mk >>
    /\ UNCHANGED << matchVars, releaseVars, timesVars, kernelVars >>

NextConfig == SetupInit \/ CheckConfiguration

SpecConfig == InitConfig /\ [][NextConfig]_vars

Init == InitMatch \/ InitRelease \/ InitTimes \/ InitKernels \/ InitConfig

Next ==
    \/ MatchPatterns
    \/ SetRelease
    \/ CheckTimes
    \/ LoadKernels
    \/ SetupInit
    \/ CheckConfiguration

Spec == Init /\ [][Next]_vars

\* ------------------------------------------------------------------------
\* Claims about the PatternMatcher (checked under SpecMatch)
\* ------------------------------------------------------------------------

\* What was substituted for the placeholders, in template order.
RECURSIVE Bindings(_, _)
Bindings(template, chunks) ==
    IF template = << >> THEN << >>
    ELSE IF Head(template).kind = "ph"
    THEN << [name |-> Head(template).v, value |-> Head(chunks)] >>
         \o Bindings(Tail(template), Tail(chunks))
    ELSE Bindings(Tail(template), Tail(chunks))

Matched == values # NotMatched

\* C1: when every placeholder of the template is declared and the file name
\* was built by replacing each placeholder with a string of its declared
\* length and copying the literals, match succeeds and returns for each
\* field exactly the substring that was substituted, whatever the order of
\* the declarations.
C1_MatchReturnsSubstituted ==
    (Matched /\ substituted # << >>) =>
        /\ values.status = "ok"
        /\ values.values = Bindings(name_w_pattern, substituted)

\* C1's case: fields declared VERSION then YEAR, a template with YEAR before
\* VERSION, and the values come back under the right names.
C1_Witness ==
    /\ Matched
    /\ name_w_pattern = << Ph("YEAR"), Lit("i"), Ph("VERSION") >>
    /\ patterns = << [name |-> "VERSION", length |-> 1],
                     [name |-> "YEAR", length |-> 2] >>
    /\ substituted = << << "2", "i" >>, << "i" >>, << "2" >> >>
    /\ values = [status |-> "ok",
                 values |-> << [name |-> "YEAR", value |-> << "2", "i" >>],
                               [name |-> "VERSION", value |-> << "2" >>] >>]

\* Some placeholder $NAME of the template has no field named exactly NAME.
SomePlaceholderUndeclared ==
    \E i \in 1..Len(name_w_pattern) :
        /\ name_w_pattern[i].kind = "ph"
        /\ \A k \in 1..Len(patterns) : patterns[k].name # name_w_pattern[i].v

\* C2: match fails with the undefined-field error, and returns no partial
\* result, whenever the template has a placeholder with no field of exactly
\* that name.
C2_UndefinedFieldFails ==
    (Matched /\ SomePlaceholderUndeclared) =>
        values = [status |-> "UndefinedFieldError", values |-> << >>]

\* C2's case: the placeholder is misspelled against the declared field
\* ($YER with fields VERSION and YEAR), after a declared placeholder.
C2_Witness ==
    /\ Matched
    /\ name_w_pattern = << Lit("i"), Ph("VERSION"), Ph("YER") >>
    /\ patterns = << [name |-> "VERSION", length |-> 1],
                     [name |-> "YEAR", length |-> 1] >>
    /\ name = << "i", "2", "2" >>
    /\ values.status = "UndefinedFieldError"

\* The length of the template's literals plus the declared field lengths.
DeclaredTotal ==
    SumFirst([i \in 1..Len(name_w_pattern) |->
                 IF name_w_pattern[i].kind = "lit" THEN 1
                 ELSE FieldLength(patterns, name_w_pattern[i].v)],
             Len(name_w_pattern))

\* C3: when all placeholders are declared and the file name's length differs
\* from the literals plus the declared lengths, match fails with the
\* length-mismatch error and returns no field value.
C3_LengthMismatchFails ==
    (Matched /\ ~SomePlaceholderUndeclared /\ Len(name) # DeclaredTotal) =>
        values = [status |-> "LengthMismatchError", values |-> << >>]

\* C3's case: YEAR is declared longer than what the file name holds.
C3_Witness ==
    /\ Matched
    /\ name_w_pattern = << Lit("i"), Ph("YEAR"), Ph("VERSION") >>
    /\ patterns = << [name |-> "VERSION", length |-> 1],
                     [name |-> "YEAR", length |-> 2] >>
    /\ name = << "i", "2", "2" >>
    /\ values.status = "LengthMismatchError"

\* ------------------------------------------------------------------------
\* Claims about the ReleaseTracker (checked under SpecRelease)
\* ------------------------------------------------------------------------

Released == release_pc = "done"

\* The release numbers of the bundle labels bundle_insight_spice_v<N>.xml of
\* the final area, and of the version markers insight_release_<N>.kernel_list
\* of the working area, whatever the width N is written with.
FinalReleases ==
    { n \in ReleaseNumbers :
        \E w \in 1..MaxWidth :
            BundleLabelPrefix \o ZeroPad(n, w) \o XmlSuffix \in final_area }
WorkingReleases ==
    { n \in ReleaseNumbers :
        \E w \in 1..MaxWidth :
            KernelListPrefix \o ZeroPad(n, w) \o KernelListSuffix
                \in working_area }

\* No name of an area has a version that is not a number.
NoMalformedName ==
    /\ BundleLabelPrefix \o << "b" >> \o XmlSuffix \notin final_area
    /\ KernelListPrefix \o << "b" >> \o KernelListSuffix \notin working_area

Greatest(S) == CHOOSE n \in S : \A m \in S : m <= n

\* C4: with no bundle label in the final area and no version marker in the
\* working area, set_release yields release "001", an empty previous
\* release and increment = FALSE.
C4_FirstRelease ==
    (Released /\ FinalReleases = {} /\ WorkingReleases = {}) =>
        /\ release = << "0", "0", "1" >>
        /\ current_release = << >>
        /\ increment = FALSE

\* C4's case: both areas empty, set_release has run.
C4_Witness ==
    /\ Released
    /\ final_area = {}
    /\ working_area = {}
    /\ release = << "0", "0", "1" >>

\* C5 (as claimed): with prior release artifacts in the area that is used,
\* written with any mix of digit widths, set_release returns the numerically
\* greatest prior number plus one and increment = TRUE.
C5_NumericallyGreatestPlusOne ==
    LET used == IF FinalReleases # {} THEN FinalReleases ELSE WorkingReleases
    IN  (Released /\ NoMalformedName /\ used # {}) =>
            /\ release = Format03(Greatest(used) + 1)
            /\ increment = TRUE

\* C6 (as claimed): whenever the final area holds a bundle label, the release
\* is the highest label number plus one and increment = TRUE, whatever the
\* working area holds.
C6_FinalAreaDecides ==
    (Released /\ FinalReleases # {}) =>
        /\ release = Format03(Greatest(FinalReleases) + 1)
        /\ increment = TRUE

\* C7 (as claimed): the working area is listed if and only if the final area
\* holds no bundle label; a version marker NNN found there then makes the
\* run an increment with release NNN + 1 and previous release NNN.
C7_WorkingAreaFallback ==
    Released =>
        /\ (\E k \in 1..Len(globbed) : globbed[k] = "working")
               <=> FinalReleases = {}
        /\ (FinalReleases = {} /\ WorkingReleases # {}) =>
               /\ increment = TRUE
               /\ \E n \in WorkingReleases :
                      /\ release = Format03(n + 1)
                      /\ current_release = Format03(n)

\* C17 (as claimed): in every outcome of set_release the release is a string
\* of exactly three decimal digits, whatever prior release number is found.
C17_ReleaseHasThreeDigits ==
    Released => (Len(release) = 3 /\ \A i \in 1..Len(release) : IsDigit(release[i]))

\* C25 (as claimed): a name of the final area that the listing matches and
\* whose version is not a number never hides a release: whenever the final
\* area holds a well-formed bundle label with number N, set_release makes
\* the run an increment with a release of at least N + 1 and does not go on
\* to the working area or to the first release.
C25_MalformedNameHidesNothing ==
    (Released /\ FinalReleases # {}) =>
        /\ increment = TRUE
        /\ globbed = << "final" >>
        /\ IsNumeral(release)
        /\ \A n \in FinalReleases : int(release) >= n + 1

\* C27: after set_release, increment is true exactly when current_release
\* is not empty; then the number of release is the number of
\* current_release plus one; otherwise release is "001".
C27_IncrementMeansPreviousRelease ==
    Released =>
        /\ increment <=> current_release # << >>
        /\ increment =>
               /\ IsNumeral(release)
               /\ IsNumeral(current_release)
               /\ int(release) = int(current_release) + 1
        /\ ~increment => release = << "0", "0", "1" >>

\* C27's case: release 9 is found in the final area, the carry gives "010".
C27_Witness ==
    /\ Released
    /\ final_area = { BundleLabelPrefix \o << "9" >> \o XmlSuffix }
    /\ increment = TRUE
    /\ current_release = << "0", "0", "9" >>
    /\ release = << "0", "1", "0" >>

\* ------------------------------------------------------------------------
\* Claims about the TemporalConsistencyChecker (checked under SpecTimes)
\* ------------------------------------------------------------------------

AllTimesGiven ==
    \A p \in { mission_start, mission_finish, increment_start,
               increment_finish } : p.kind = "time"

\* C8: for four given times, check_times succeeds if and only if
\* mission_start < increment_start <= increment_finish <= mission_finish and
\* mission_start < mission_finish.
C8_CheckTimesChain ==
    (times_checked.done /\ AllTimesGiven) =>
        (times_checked.ok <=>
            /\ mission_start.t < increment_start.t
            /\ increment_start.t <= increment_finish.t
            /\ increment_finish.t <= mission_finish.t
            /\ mission_start.t < mission_finish.t)

\* C8's case: the boundary that is accepted, increment_start =
\* increment_finish = mission_finish.
C8_Witness ==
    /\ times_checked.done
    /\ times_checked.ok
    /\ AllTimesGiven
    /\ mission_start.t < increment_start.t
    /\ increment_start = increment_finish
    /\ increment_finish = mission_finish

\* C16 (as claimed): when the increment bounds are not provided, they take
\* no part in the check: check_times succeeds exactly when mission_start <
\* mission_finish.
C16_UnsetIncrementIsExcluded ==
    (/\ times_checked.done
     /\ increment_start = Absent
     /\ increment_finish = Absent
     /\ mission_start.kind = "time"
     /\ mission_finish.kind = "time") =>
        (times_checked.ok <=> mission_start.t < mission_finish.t)

\* The comparisons of check_times that four times violate, by their number.
ViolatedComparisons(ms, is, if, mf) ==
    { k \in 1..4 :
        \/ k = 1 /\ ~(ms < is)
        \/ k = 2 /\ ~(is <= if)
        \/ k = 3 /\ ~(if <= mf)
        \/ k = 4 /\ ~(ms < mf) }

\* C21 (as claimed): the error of a failed check names the comparison that
\* was violated: another input that violates other comparisons gets an
\* error that can be told from this one.
C21_ErrorNamesTheComparison ==
    (times_checked.done /\ AllTimesGiven /\ ~times_checked.ok) =>
        \A a, b, c, d \in 0..MaxTime :
            (/\ ViolatedComparisons(a, b, c, d) # {}
             /\ ViolatedComparisons(a, b, c, d)
                    # ViolatedComparisons(mission_start.t, increment_start.t,
                                          increment_finish.t, mission_finish.t)) =>
                check_times(Utc(a), Utc(b), Utc(c), Utc(d)).message
                    # times_checked.message

\* C28: for four given times, check_times accepts exactly the inputs that
\* the first three comparisons accept; mission_start < mission_finish never
\* decides.
C28_FourthComparisonIsImplied ==
    (times_checked.done /\ AllTimesGiven) =>
        /\ times_checked.ok <=>
               /\ mission_start.t < increment_start.t
               /\ increment_start.t <= increment_finish.t
               /\ increment_finish.t <= mission_finish.t
        /\ times_checked.ok => mission_start.t < mission_finish.t

\* C28's case: the mission lasts one unit of time and is accepted.
C28_Witness ==
    /\ times_checked.done
    /\ times_checked.ok
    /\ mission_start = Utc(0)
    /\ increment_start = Utc(1)
    /\ increment_finish = Utc(1)
    /\ mission_finish = Utc(1)

\* ------------------------------------------------------------------------
\* Claims about the KernelTypeResolver (checked under SpecKernels)
\* ------------------------------------------------------------------------

KernelsDone == kernels_loaded.done

\* The configured LSK patterns, and the files of the lsk subdirectory that a
\* pattern matches.
LskPatterns ==
    [k \in 1..Cardinality({ i \in 1..Len(kernels_to_load) :
                              kernels_to_load[i].type = "lsk" }) |->
        kernels_to_load[CHOOSE i \in 1..Len(kernels_to_load) :
            /\ kernels_to_load[i].type = "lsk"
            /\ Cardinality({ j \in 1..i : kernels_to_load[j].type = "lsk" }) = k
        ].pattern]
LskCandidates(pattern) ==
    { f \in kernels_directory["lsk"].files : re_search(pattern, f) }

\* C9 (as claimed): load_kernels fails with a fatal error whenever it has
\* resolved zero LSK files.
C9_NoLskIsFatal ==
    (KernelsDone /\ kernels_loaded.lsks = << >>) => kernels_loaded.error # ""

\* The LSK loop ran over all the configured patterns.
LskLoopCompleted ==
    ~(kernels_loaded.error = "FileNotFoundError" /\ kernels_loaded.at = "lsk")

\* C10: load_kernels raises 'Only one LSK should be obtained.' when the LSK
\* patterns resolved to more than one file, and only then; several files
\* matching one single pattern are no ambiguity, the last in lexicographic
\* order is taken.
C10_SeveralLskIsFatal ==
    KernelsDone =>
        /\ (kernels_loaded.error = "Only one LSK should be obtained.")
               <=> (LskLoopCompleted /\ Len(kernels_loaded.lsks) > 1)
        /\ Len(kernels_loaded.lsks) > 1 => kernels_loaded.error # ""
        /\ \A p \in KernelPatterns :
               (/\ LskPatterns = << p >>
                /\ p \notin existing_paths
                /\ kernels_directory["lsk"].present
                /\ Cardinality(LskCandidates(p)) > 1) =>
                   /\ kernels_loaded.error # "Only one LSK should be obtained."
                   /\ Len(kernels_loaded.lsks) = 1
                   /\ kernels_loaded.lsks[1] \in LskCandidates(p)
                   /\ \A f \in LskCandidates(p) :
                          f = kernels_loaded.lsks[1]
                          \/ StrLess(f, kernels_loaded.lsks[1])

\* C10's cases: one pattern with two candidates and no error; two patterns
\* that each resolve to a file and the error.
C10_Witness ==
    /\ KernelsDone
    /\ LskPatterns = << << "n", "." >>, << "n", "2" >> >>
    /\ existing_paths = {}
    /\ kernels_directory["lsk"] = Directory(KernelFiles)
    /\ kernels_loaded.lsks = << << "n", "2" >>, << "n", "2" >> >>
    /\ kernels_loaded.error = "Only one LSK should be obtained."
C10_WitnessOnePattern ==
    /\ KernelsDone
    /\ LskPatterns = << << "n", "." >> >>
    /\ kernels_directory["lsk"] = Directory(KernelFiles)
    /\ kernels_loaded.lsks = << << "n", "2" >> >>
    /\ kernels_loaded.error = ""

\* What one pattern of a category is expected to contribute: itself when it
\* is an existing path; otherwise the greatest, in the order of strings, of
\* the entries of the category's subdirectory it matches, if there is one.
KernelCandidates(type, pattern) ==
    { f \in kernels_directory[type].files : re_search(pattern, f) }
GreatestName(S) == CHOOSE f \in S : \A g \in S : g = f \/ StrLess(g, f)
Contribution(type, pattern) ==
    IF pattern \in existing_paths THEN << pattern >>
    ELSE IF KernelCandidates(type, pattern) = {} THEN << >>
    ELSE << GreatestName(KernelCandidates(type, pattern)) >>
ExpectedKernels(type) ==
    Flatten([k \in 1..Len(PatternsOf(kernels_to_load, type)) |->
                Contribution(type, PatternsOf(kernels_to_load, type)[k])])

\* The files furnished to the kernel pool, in order.
PoolFiles == [k \in 1..Len(kernel_pool) |-> kernel_pool[k].file]

\* C11: a pattern that is not an existing path and matches entries of the
\* category's subdirectory contributes exactly one file, the greatest of the
\* matching names in the order of strings; a pattern with no candidate
\* contributes nothing; the resolved list holds the contributions in the
\* order of the configured patterns.  The LSK list is there once the LSK
\* loop has run, the other lists once load_kernels has returned.
C11_LatestCandidatePerPattern ==
    KernelsDone =>
        /\ LskLoopCompleted => kernels_loaded.lsks = ExpectedKernels("lsk")
        /\ kernels_loaded.error = "" =>
               /\ setup_kernels.fks = ExpectedKernels("fk")
               /\ setup_kernels.sclks = ExpectedKernels("sclk")
               /\ PoolFiles = ExpectedKernels("lsk") \o ExpectedKernels("pck")
                              \o ExpectedKernels("fk") \o ExpectedKernels("sclk")

\* C11's case: a pattern without candidate, then a pattern with two
\* candidates: the second of them alone is resolved.
C11_Witness ==
    /\ KernelsDone
    /\ kernels_to_load = << [type |-> "lsk", pattern |-> << "z" >>],
                            [type |-> "lsk", pattern |-> << "n", "." >>] >>
    /\ existing_paths = {}
    /\ kernels_directory["lsk"] = Directory(KernelFiles)
    /\ kernels_loaded.lsks = << << "n", "2" >> >>
    /\ kernels_loaded.error = ""

\* Every pattern configured for the type is an existing path.
AllExisting(type) ==
    \A k \in 1..Len(PatternsOf(kernels_to_load, type)) :
        PatternsOf(kernels_to_load, type)[k] \in existing_paths

\* C12: a pattern that is an existing path contributes that path itself and
\* the category's subdirectory is not listed for it: whatever the
\* subdirectory holds, and when it is missing, the loop of a category whose
\* patterns are all existing paths does not fail, resolves to the patterns
\* themselves and furnishes them as they are written.
C12_ExistingPathUsedDirectly ==
    KernelsDone =>
        /\ \A type \in KernelTypes :
               AllExisting(type) =>
                   ~(kernels_loaded.error = "FileNotFoundError"
                     /\ kernels_loaded.at = type)
        /\ AllExisting("lsk") =>
               /\ kernels_loaded.lsks = PatternsOf(kernels_to_load, "lsk")
               /\ \A k \in 1..Len(kernels_loaded.lsks) :
                      kernel_pool[k] = [dir |-> "",
                                        file |-> kernels_loaded.lsks[k]]
        /\ (kernels_loaded.error = "" /\ AllExisting("fk")) =>
               setup_kernels.fks = PatternsOf(kernels_to_load, "fk")
        /\ (kernels_loaded.error = "" /\ AllExisting("sclk")) =>
               setup_kernels.sclks = PatternsOf(kernels_to_load, "sclk")

\* C12's case: the LSK pattern is an existing path and the lsk subdirectory
\* is missing.
C12_Witness ==
    /\ KernelsDone
    /\ kernels_to_load = << [type |-> "lsk", pattern |-> << "n", "2" >>] >>
    /\ << "n", "2" >> \in existing_paths
    /\ kernels_directory["lsk"] = MissingDirectory
    /\ kernels_loaded.lsks = << << "n", "2" >> >>
    /\ kernel_pool = << [dir |-> "", file |-> << "n", "2" >>] >>
    /\ kernels_loaded.error = ""

\* C19 (as claimed): when load_kernels aborts with the LSK cardinality
\* error, fks, sclks and lsk have not been stored on the setup object and no
\* kernel furnished by the call is left in the kernel pool.
C19_NoPartialStateOnLskError ==
    (KernelsDone /\ kernels_loaded.error = "Only one LSK should be obtained.") =>
        /\ setup_kernels = NoKernelAttributes
        /\ kernel_pool = << >>

\* C26 (as claimed): load_kernels ends without an internal failure for every
\* kernels_to_load, and after a successful call the attributes of the setup
\* object hold the files that were selected: lsk is the resolved LSK file,
\* fks and sclks are the resolved lists.
C26_AttributesHoldResolvedFiles ==
    KernelsDone =>
        /\ kernels_loaded.error # "UnboundLocalError"
        /\ kernels_loaded.error = "" =>
               /\ setup_kernels.stored
               /\ kernels_loaded.lsks \in { << >>, << setup_kernels.lsk >> }
               /\ kernels_loaded.lsks = << >> => setup_kernels.lsk = << >>
               /\ setup_kernels.fks = ExpectedKernels("fk")
               /\ setup_kernels.sclks = ExpectedKernels("sclk")

\* ------------------------------------------------------------------------
\* Claims about the configuration (checked under SpecConfig)
\* ------------------------------------------------------------------------

\* check_configuration has run: it returned, or it raised.
CheckRan ==
    \/ config_pc = "checked"
    \/ /\ config_pc = "failed"
       /\ config_error \notin { ReleaseDateError, EndOfLineError }

\* The one configured meta-kernel, when there is exactly one.
OneMk == mk.given /\ Len(mk.list) = 1
MkName == mk.list[1].name
MkPatterns == mk.list[1].patterns
DeclaredTokens == { MkPatterns[k] : k \in 1..Len(MkPatterns) }

\* The placeholders of a name: each '$' with the upper case text after it.
UpperCase == { "A", "B" }
RECURSIVE TokenFrom(_, _)
TokenFrom(s, k) ==
    IF k > Len(s) \/ s[k] \notin UpperCase THEN << >>
    ELSE << s[k] >> \o TokenFrom(s, k + 1)
PlaceholderTokens(s) ==
    { TokenFrom(s, k + 1) : k \in { j \in 1..Len(s) : s[j] = "$" } }

\* C13 (as claimed): the meta-kernel check fails with the unresolved-pattern
\* error whenever the name holds a placeholder whose token is not a declared
\* pattern, also when a declared token is a proper prefix of it.
C13_UndeclaredPlaceholderFails ==
    (/\ CheckRan
     /\ OneMk
     /\ \E t \in PlaceholderTokens(MkName) : t \notin DeclaredTokens) =>
        config_error = PatternsNotDefinedError

\* C14 (as claimed): the meta-kernel check fails with the pattern-not-present
\* error whenever a declared token does not occur in the configured name,
\* whatever the removal of the other placeholders leaves in the working
\* copy.
C14_AbsentTokenFails ==
    (/\ CheckRan
     /\ OneMk
     /\ \E t \in DeclaredTokens : ~Contains(MkName, t)) =>
        config_error = PatternNotProvidedError

\* The form a message of check_configuration asks for: Y, M, D, h, m and s
\* stand for a digit, the other characters for themselves.
DateForm == << "Y", "Y", "Y", "Y", "-", "M", "M", "-", "D", "D" >>
MakeLblForm == DateForm \o << "T", "h", "h", ":", "m", "m", ":", "s", "s", "Z" >>
InfoMod2Form ==
    DateForm \o << "T", "h", "h", ":", "m", "m", ":", "s", "s", ".", "s", "s", "s", "Z" >>
HasForm(s, form) ==
    /\ Len(s) = Len(form)
    /\ \A i \in 1..Len(form) :
           IF form[i] \in { "Y", "M", "D", "h", "m", "s" } THEN IsDigit(s[i])
           ELSE s[i] = form[i]
TimeForm == IF date_format = "makelbl" THEN MakeLblForm ELSE InfoMod2Form
CoverageNames ==
    { "mission_start", "mission_finish", "increment_start", "increment_finish" }
WellFormedTimes ==
    /\ date_format \in { "infomod2", "makelbl" }
    /\ \A n \in CoverageNames :
           Provided(coverage_times[n]) => HasForm(coverage_times[n].text, TimeForm)

\* C15 (as claimed): if exactly one of increment_start and increment_finish
\* is provided, the other being absent from the configuration or empty, the
\* configuration check fails with the pairing error.
C15_IncrementBoundsComeTogether ==
    (/\ CheckRan
     /\ WellFormedTimes
     /\ Provided(coverage_times.increment_start)
            # Provided(coverage_times.increment_finish)) =>
        config_error = PairingError

\* C18 (as claimed): the setup object is not constructed with a release
\* date that is not of the form YYYY-MM-DD, and check_configuration does not
\* return with a provided time that is not of the form of the date format;
\* a value that only begins with a well-formed one is rejected.
C18_MalformedDatesAreRejected ==
    /\ config_pc \in { "constructed", "checked" } =>
           HasForm(release_date.text, DateForm)
    /\ config_pc = "checked" =>
           \A n \in CoverageNames :
               Provided(coverage_times[n]) =>
                   HasForm(coverage_times[n].text, TimeForm)

\* C20 (as claimed): no operation creates, removes or modifies a file
\* system entry: the directories that exist and the listings of the final
\* area, the working area and the kernel directories stay as they were.
C20_FilesystemIsReadOnly ==
    [][/\ filesystem' = filesystem
       /\ final_area' = final_area
       /\ working_area' = working_area
       /\ kernels_directory' = kernels_directory
       /\ existing_paths' = existing_paths]_vars

\* How often $<token> occurs in a name as a placeholder, and how often a
\* token is declared.
PlaceholderCount(s, t) ==
    Cardinality({ k \in 1..Len(s) : s[k] = "$" /\ TokenFrom(s, k + 1) = t })
DeclarationCount(t) ==
    Cardinality({ k \in 1..Len(MkPatterns) : MkPatterns[k] = t })

\* C22 (as claimed): one occurrence of $<token> is removed for each
\* declaration, so that a name in which a placeholder occurs more often than
\* it is declared fails with the unresolved-pattern error.
C22_OneRemovalPerDeclaration ==
    (/\ CheckRan
     /\ OneMk
     /\ \E t \in DeclaredTokens :
            PlaceholderCount(MkName, t) > DeclarationCount(t)) =>
        config_error = PatternsNotDefinedError

\* The declared patterns in every order.
Reorderings(pats) ==
    { [k \in 1..Len(pats) |-> pats[f[k]]] : f \in Permutations(1..Len(pats)) }

\* C23 (as claimed): the outcome of the meta-kernel check depends on the
\* name and on the set of the declared tokens only: it is the same for every
\* order of the declarations.
C23_DeclarationOrderIsIrrelevant ==
    (CheckRan /\ OneMk) =>
        \A pats \in Reorderings(MkPatterns) :
            check_name(MkName, pats) = config_error

\* C24 (as claimed): the meta-kernel check succeeds only if every declared
\* token occurs in the name as a placeholder; the text of the token without
\* a '$' before it does not count.
C24_TokenMustBePlaceholder ==
    (config_pc = "checked" /\ OneMk) =>
        \A t \in DeclaredTokens : t \in PlaceholderTokens(MkName)

\* C29 (as claimed): check_configuration leaves the current directory of
\* the process as it found it, when it returns and when it raises.
C29_WorkingDirectoryIsRestored ==
    CheckRan => cwd = CurrentDirectory

\* The order of versions: by their four numbers, the first difference
\* decides.
VersionLess(v, w) ==
    \E k \in 1..4 : v[k] < w[k] /\ \A j \in 1..(k - 1) : v[j] = w[j]
AvailableVersions ==
    { shipped_templates[k].version : k \in 1..Len(shipped_templates) }
HighestOf(S) == CHOOSE v \in S : \A w \in S : w = v \/ VersionLess(w, v)
LowestOf(S) == CHOOSE v \in S : \A w \in S : w = v \/ VersionLess(v, w)
NotNewer == { v \in AvailableVersions : ~VersionLess(information_model, v) }

\* C30 (as claimed): with no templates directory configured for a PDS4 run,
\* check_configuration selects the highest available version that is not
\* greater than the information model, the lowest available one when the
\* model is older than all of them: always one of the available versions.
C30_TemplatesOfTheModelOrOlder ==
    [][(/\ config_pc = "constructed"
        /\ config_pc' = "checked"
        /\ templates_directory = NoTemplates
        /\ pds_version = "4") =>
           templates_directory' =
               TemplatesOf(IF NotNewer # {} THEN HighestOf(NotNewer)
                           ELSE LowestOf(AvailableVersions))]_vars

====
